---- MODULE Spec2Model ----
(***************************************************************************)
(* A model of the MPU-6050 driver class that the repository carries in     *)
(* three copies (mpu6050_recorder.py, motion_led.py, mpu6050_plot_2.py)    *)
(* and of the programs built on it.                                        *)
(*                                                                         *)
(* The device is a set of byte registers behind an I2C bus.  A driver      *)
(* method is one action: it performs its bus transactions in program       *)
(* order, and the inputs of the action are the bytes the device presents   *)
(* and the set of transactions (numbered 1, 2, ... within the call) that   *)
(* end in an IOError.  An action binds the outcome of the call once, as    *)
(* the only element of a set (\E o \in {call} : ...).                      *)
(*                                                                         *)
(* Python floats are modelled as exact rationals [n, d]; a value in m/s^2  *)
(* is kept as the rational number of g it stands for, with the flag ms2    *)
(* saying that it has been multiplied by GRAVITIY_MS2.                     *)
(***************************************************************************)
EXTENDS Integers, Sequences, FiniteSets

VARIABLES
    driver,        \* which copy of class mpu6050 the program uses
    mpu,           \* "None" until a constructor has returned, then "object"
    init_failed,   \* the write to PWR_MGMT_1 in __init__ ended in IOError
    pwr_mgmt_1,    \* device register 0x6B
    accel_config,  \* device register 0x1C
    gyro_config,   \* device register 0x1B
    op,            \* the method called last
    arg,           \* its register or range byte argument
    flag,          \* its raw or g argument
    sensor,        \* the bytes the device presented to the call
    fail,          \* the bus transactions of the call that ended in IOError
    log,           \* the bus transactions the call performed, in order
    raised,        \* the call raised to its caller
    ret,           \* the value the call returned
    pc,            \* where the running program stands
    led,           \* the level of LED_PIN
    camera,        \* the global camera of motion_led.py
    last_state_moving,
    accel_data,    \* the samples of the polling cycle
    gyro_data,
    cycles,        \* polling cycles so far
    classified,    \* is_moving_now of every classified sample, in order
    reports,       \* the status reports printed on a state change, in order
    captured,      \* the polling cycle wrote an alert image
    cleanup,       \* the shutdown steps main() of motion_led.py has called
    file,          \* the lines of the recorder's output file
    record_count,  \* record_count of the recorder's main()
    time_data,     \* the plotter's four deques
    ax_data,
    ay_data,
    az_data

drvVars == <<driver, mpu, init_failed, pwr_mgmt_1, accel_config, gyro_config,
             op, arg, flag, sensor, fail, log, raised, ret>>

recVars == <<file, record_count>>

plotVars == <<time_data, ax_data, ay_data, az_data>>

progVars == <<pc, led, camera, last_state_moving, accel_data, gyro_data,
              cycles, classified, reports, captured, cleanup, recVars,
              plotVars>>

vars == <<drvVars, progVars>>

Copies == {"recorder", "motion_led", "plot"}

Bytes == 0 .. 255

\* ------------------------------------------------------------ class constants

ACCEL_RANGE_2G == 0
ACCEL_RANGE_4G == 8
ACCEL_RANGE_8G == 16
ACCEL_RANGE_16G == 24

GYRO_RANGE_250DEG == 0
GYRO_RANGE_500DEG == 8
GYRO_RANGE_1000DEG == 16
GYRO_RANGE_2000DEG == 24

PWR_MGMT_1 == 107
ACCEL_XOUT0 == 59
ACCEL_YOUT0 == 61
ACCEL_ZOUT0 == 63
TEMP_OUT0 == 65
GYRO_XOUT0 == 67
GYRO_YOUT0 == 69
GYRO_ZOUT0 == 71
ACCEL_CONFIG == 28
GYRO_CONFIG == 27

Rat(n, d) == [n |-> n, d |-> d]

ACCEL_SCALE_MODIFIER_2G == Rat(16384, 1)
ACCEL_SCALE_MODIFIER_4G == Rat(8192, 1)
ACCEL_SCALE_MODIFIER_8G == Rat(4096, 1)
ACCEL_SCALE_MODIFIER_16G == Rat(2048, 1)

\* 131.0, 65.5, 32.8 and 16.4
GYRO_SCALE_MODIFIER_250DEG == Rat(131, 1)
GYRO_SCALE_MODIFIER_500DEG == Rat(131, 2)
GYRO_SCALE_MODIFIER_1000DEG == Rat(164, 5)
GYRO_SCALE_MODIFIER_2000DEG == Rat(82, 5)

\* ------------------------------------------------------------ return values

\* A Python int.
RetInt(v) == [kind |-> "int", v |-> v, x |-> Rat(0, 1), y |-> Rat(0, 1),
              z |-> Rat(0, 1), ms2 |-> FALSE]

\* The dict {'x': x, 'y': y, 'z': z}; ms2 says the values were multiplied by
\* GRAVITIY_MS2.
RetDict(x, y, z, ms2) == [kind |-> "dict", v |-> 0, x |-> x, y |-> y, z |-> z,
                          ms2 |-> ms2]

\* None: a bare return, or a method without a return value.
RetNone == [kind |-> "None", v |-> 0, x |-> Rat(0, 1), y |-> Rat(0, 1),
            z |-> Rat(0, 1), ms2 |-> FALSE]

\* A Python float that is not part of a dict, in x.
RetFloat(r) == [kind |-> "float", v |-> 0, x |-> r, y |-> Rat(0, 1),
                z |-> Rat(0, 1), ms2 |-> FALSE]

\* int / float, as a rational.
Div(v, m) == Rat(v * m.d, m.n)

\* ------------------------------------------------------------ the bus

\* One bus transaction: a read ("r") or a write ("w") of a register.
Txn(kind, reg, ok) == [kind |-> kind, reg |-> reg, ok |-> ok]

\* The outcome of a method: whether it raised, what it returned, the bus
\* transactions it performed.
Out(r, v, l) == [raised |-> r, ret |-> v, log |-> l]

\* ------------------------------------------------------------ read_i2c_word

DecodeNoSignBit(value) == IF value > 32768 THEN -((65535 - value) + 1) ELSE value

\* The two's-complement reading of the word, as the three copies compute it.
Decode(value) == IF value >= 32768 THEN -((65535 - value) + 1) ELSE value

\* A word read that writes the byte back before it returns.
read_i2c_word_writing_back(register, w, F, k) ==
    Out(FALSE, RetInt(Decode((w[1] * 256) + w[2])),
        <<Txn("r", register, TRUE), Txn("r", register + 1, TRUE),
          Txn("w", register, TRUE)>>)

\* w = <<high, low>> are the bytes at register and register + 1; the call's
\* transactions are numbered k and k + 1.
read_i2c_word_recorder(register, w, F, k) ==
    IF k \in F
    THEN Out(FALSE, RetInt(0), <<Txn("r", register, FALSE)>>)
    ELSE IF (k + 1) \in F
    THEN Out(FALSE, RetInt(0),
             <<Txn("r", register, TRUE), Txn("r", register + 1, FALSE)>>)
    ELSE Out(FALSE, RetInt(Decode((w[1] * 256) + w[2])),
             <<Txn("r", register, TRUE), Txn("r", register + 1, TRUE)>>)

read_i2c_word_motion_led(register, w, F, k) ==
    IF k \in F
    THEN Out(FALSE, RetInt(0), <<Txn("r", register, FALSE)>>)
    ELSE IF (k + 1) \in F
    THEN Out(FALSE, RetInt(0),
             <<Txn("r", register, TRUE), Txn("r", register + 1, FALSE)>>)
    ELSE Out(FALSE, RetInt(Decode((w[1] * 256) + w[2])),
             <<Txn("r", register, TRUE), Txn("r", register + 1, TRUE)>>)

\* The plotter's copy has no try/except: an IOError leaves the method.
read_i2c_word_plot(register, w, F, k) ==
    IF k \in F
    THEN Out(TRUE, RetNone, <<Txn("r", register, FALSE)>>)
    ELSE IF (k + 1) \in F
    THEN Out(TRUE, RetNone,
             <<Txn("r", register, TRUE), Txn("r", register + 1, FALSE)>>)
    ELSE Out(FALSE, RetInt(Decode((w[1] * 256) + w[2])),
             <<Txn("r", register, TRUE), Txn("r", register + 1, TRUE)>>)

read_i2c_word(c, register, w, F, k) ==
    CASE c = "recorder" -> read_i2c_word_recorder(register, w, F, k)
      [] c = "motion_led" -> read_i2c_word_motion_led(register, w, F, k)
      [] c = "plot" -> read_i2c_word_plot(register, w, F, k)

\* ------------------------------------------------------------ range methods

\* The device registers a method may write.
Dev(p, a, g) == [pwr |-> p, accel |-> a, gyro |-> g]

\* The outcome of a method that writes: Out, and the registers afterwards.
OutW(r, v, l, d) == [raised |-> r, ret |-> v, log |-> l, dev |-> d]

\* A write that ends in IOError leaves the register as it was.
set_accel_range_recorder(accel_range, d, F, k) ==
    IF k \in F
    THEN OutW(FALSE, RetNone, <<Txn("w", ACCEL_CONFIG, FALSE)>>, d)
    ELSE OutW(FALSE, RetNone, <<Txn("w", ACCEL_CONFIG, TRUE)>>,
              Dev(d.pwr, accel_range, d.gyro))

set_gyro_range_recorder(gyro_range, d, F, k) ==
    IF k \in F
    THEN OutW(FALSE, RetNone, <<Txn("w", GYRO_CONFIG, FALSE)>>, d)
    ELSE OutW(FALSE, RetNone, <<Txn("w", GYRO_CONFIG, TRUE)>>,
              Dev(d.pwr, d.accel, gyro_range))

set_accel_range_motion_led(accel_range, d, F, k) ==
    IF k \in F
    THEN OutW(FALSE, RetNone, <<Txn("w", ACCEL_CONFIG, FALSE)>>, d)
    ELSE OutW(FALSE, RetNone, <<Txn("w", ACCEL_CONFIG, TRUE)>>,
              Dev(d.pwr, accel_range, d.gyro))

set_gyro_range_motion_led(gyro_range, d, F, k) ==
    IF k \in F
    THEN OutW(FALSE, RetNone, <<Txn("w", GYRO_CONFIG, FALSE)>>, d)
    ELSE OutW(FALSE, RetNone, <<Txn("w", GYRO_CONFIG, TRUE)>>,
              Dev(d.pwr, d.accel, gyro_range))

\* The plotter's copy writes 0x00, then the range, then reads the register
\* back for its message (read_accel_range catches its own IOError).
set_accel_range_plot(accel_range, d, F, k) ==
    IF k \in F
    THEN OutW(FALSE, RetNone, <<Txn("w", ACCEL_CONFIG, FALSE)>>, d)
    ELSE IF (k + 1) \in F
    THEN OutW(FALSE, RetNone,
              <<Txn("w", ACCEL_CONFIG, TRUE), Txn("w", ACCEL_CONFIG, FALSE)>>,
              Dev(d.pwr, 0, d.gyro))
    ELSE OutW(FALSE, RetNone,
              <<Txn("w", ACCEL_CONFIG, TRUE), Txn("w", ACCEL_CONFIG, TRUE),
                Txn("r", ACCEL_CONFIG, (k + 2) \notin F)>>,
              Dev(d.pwr, accel_range, d.gyro))

set_gyro_range_plot(gyro_range, d, F, k) ==
    IF k \in F
    THEN OutW(FALSE, RetNone, <<Txn("w", GYRO_CONFIG, FALSE)>>, d)
    ELSE IF (k + 1) \in F
    THEN OutW(FALSE, RetNone,
              <<Txn("w", GYRO_CONFIG, TRUE), Txn("w", GYRO_CONFIG, FALSE)>>,
              Dev(d.pwr, d.accel, 0))
    ELSE OutW(FALSE, RetNone,
              <<Txn("w", GYRO_CONFIG, TRUE), Txn("w", GYRO_CONFIG, TRUE),
                Txn("r", GYRO_CONFIG, (k + 2) \notin F)>>,
              Dev(d.pwr, d.accel, gyro_range))

set_accel_range(c, accel_range, d, F, k) ==
    CASE c = "recorder" -> set_accel_range_recorder(accel_range, d, F, k)
      [] c = "motion_led" -> set_accel_range_motion_led(accel_range, d, F, k)
      [] c = "plot" -> set_accel_range_plot(accel_range, d, F, k)

set_gyro_range(c, gyro_range, d, F, k) ==
    CASE c = "recorder" -> set_gyro_range_recorder(gyro_range, d, F, k)
      [] c = "motion_led" -> set_gyro_range_motion_led(gyro_range, d, F, k)
      [] c = "plot" -> set_gyro_range_plot(gyro_range, d, F, k)

\* The byte -> range mapping of read_accel_range, shared by the recorder's and
\* the plotter's copy.
AccelRangeOf(raw_data) ==
    IF raw_data = ACCEL_RANGE_2G THEN 2
    ELSE IF raw_data = ACCEL_RANGE_4G THEN 4
    ELSE IF raw_data = ACCEL_RANGE_8G THEN 8
    ELSE IF raw_data = ACCEL_RANGE_16G THEN 16
    ELSE -1

GyroRangeOf(raw_data) ==
    IF raw_data = GYRO_RANGE_250DEG THEN 250
    ELSE IF raw_data = GYRO_RANGE_500DEG THEN 500
    ELSE IF raw_data = GYRO_RANGE_1000DEG THEN 1000
    ELSE IF raw_data = GYRO_RANGE_2000DEG THEN 2000
    ELSE -1

\* cfg is the byte in the config register.
read_accel_range_recorder(raw, cfg, F, k) ==
    IF k \in F
    THEN Out(FALSE, RetInt(-1), <<Txn("r", ACCEL_CONFIG, FALSE)>>)
    ELSE IF raw
    THEN Out(FALSE, RetInt(cfg), <<Txn("r", ACCEL_CONFIG, TRUE)>>)
    ELSE Out(FALSE, RetInt(AccelRangeOf(cfg)), <<Txn("r", ACCEL_CONFIG, TRUE)>>)

read_gyro_range_recorder(raw, cfg, F, k) ==
    IF k \in F
    THEN Out(FALSE, RetInt(-1), <<Txn("r", GYRO_CONFIG, FALSE)>>)
    ELSE IF raw
    THEN Out(FALSE, RetInt(cfg), <<Txn("r", GYRO_CONFIG, TRUE)>>)
    ELSE Out(FALSE, RetInt(GyroRangeOf(cfg)), <<Txn("r", GYRO_CONFIG, TRUE)>>)

read_accel_range_plot(raw, cfg, F, k) ==
    IF k \in F
    THEN Out(FALSE, RetInt(-1), <<Txn("r", ACCEL_CONFIG, FALSE)>>)
    ELSE IF raw
    THEN Out(FALSE, RetInt(cfg), <<Txn("r", ACCEL_CONFIG, TRUE)>>)
    ELSE Out(FALSE, RetInt(AccelRangeOf(cfg)), <<Txn("r", ACCEL_CONFIG, TRUE)>>)

read_gyro_range_plot(raw, cfg, F, k) ==
    IF k \in F
    THEN Out(FALSE, RetInt(-1), <<Txn("r", GYRO_CONFIG, FALSE)>>)
    ELSE IF raw
    THEN Out(FALSE, RetInt(cfg), <<Txn("r", GYRO_CONFIG, TRUE)>>)
    ELSE Out(FALSE, RetInt(GyroRangeOf(cfg)), <<Txn("r", GYRO_CONFIG, TRUE)>>)

\* The motion detector's copy reads nothing and answers with the default.
read_accel_range_motion_led(raw, cfg, F, k) == Out(FALSE, RetInt(2), <<>>)

read_gyro_range_motion_led(raw, cfg, F, k) == Out(FALSE, RetInt(250), <<>>)

read_accel_range(c, raw, cfg, F, k) ==
    CASE c = "recorder" -> read_accel_range_recorder(raw, cfg, F, k)
      [] c = "motion_led" -> read_accel_range_motion_led(raw, cfg, F, k)
      [] c = "plot" -> read_accel_range_plot(raw, cfg, F, k)

read_gyro_range(c, raw, cfg, F, k) ==
    CASE c = "recorder" -> read_gyro_range_recorder(raw, cfg, F, k)
      [] c = "motion_led" -> read_gyro_range_motion_led(raw, cfg, F, k)
      [] c = "plot" -> read_gyro_range_plot(raw, cfg, F, k)

\* ------------------------------------------------------------ scaled data

\* s = <<x, y, z, z2>>: the words <<high, low>> the three axis registers
\* present, and the word the z register presents when it is read a second
\* time in the same call.

\* The range byte -> modifier chain of get_accel_data; any other value,
\* the -1 of a failed register read included, leaves the initial
\* ACCEL_SCALE_MODIFIER_2G.
AccelModifier(accel_range) ==
    IF accel_range = ACCEL_RANGE_2G THEN ACCEL_SCALE_MODIFIER_2G
    ELSE IF accel_range = ACCEL_RANGE_4G THEN ACCEL_SCALE_MODIFIER_4G
    ELSE IF accel_range = ACCEL_RANGE_8G THEN ACCEL_SCALE_MODIFIER_8G
    ELSE IF accel_range = ACCEL_RANGE_16G THEN ACCEL_SCALE_MODIFIER_16G
    ELSE ACCEL_SCALE_MODIFIER_2G

GyroModifier(gyro_range) ==
    IF gyro_range = GYRO_RANGE_250DEG THEN GYRO_SCALE_MODIFIER_250DEG
    ELSE IF gyro_range = GYRO_RANGE_500DEG THEN GYRO_SCALE_MODIFIER_500DEG
    ELSE IF gyro_range = GYRO_RANGE_1000DEG THEN GYRO_SCALE_MODIFIER_1000DEG
    ELSE IF gyro_range = GYRO_RANGE_2000DEG THEN GYRO_SCALE_MODIFIER_2000DEG
    ELSE GYRO_SCALE_MODIFIER_250DEG

get_accel_data_recorder(g, s, cfg, F) ==
    LET x == read_i2c_word_recorder(ACCEL_XOUT0, s[1], F, 1)
        y == read_i2c_word_recorder(ACCEL_YOUT0, s[2], F, 1 + Len(x.log))
        z == read_i2c_word_recorder(ACCEL_ZOUT0, s[3], F,
                                    1 + Len(x.log) + Len(y.log))
        r == read_accel_range_recorder(TRUE, cfg, F,
                                       1 + Len(x.log) + Len(y.log) + Len(z.log))
        accel_scale_modifier == AccelModifier(r.ret.v)
    IN Out(FALSE,
           RetDict(Div(x.ret.v, accel_scale_modifier),
                   Div(y.ret.v, accel_scale_modifier),
                   Div(z.ret.v, accel_scale_modifier), ~g),
           x.log \o y.log \o z.log \o r.log)

\* The motion detector's copy scales with ACCEL_SCALE_MODIFIER_2G whatever
\* the register holds.
get_accel_data_motion_led(g, s, cfg, F) ==
    LET x == read_i2c_word_motion_led(ACCEL_XOUT0, s[1], F, 1)
        y == read_i2c_word_motion_led(ACCEL_YOUT0, s[2], F, 1 + Len(x.log))
        z == read_i2c_word_motion_led(ACCEL_ZOUT0, s[3], F,
                                      1 + Len(x.log) + Len(y.log))
        accel_scale_modifier == ACCEL_SCALE_MODIFIER_2G
    IN Out(FALSE,
           RetDict(Div(x.ret.v, accel_scale_modifier),
                   Div(y.ret.v, accel_scale_modifier),
                   Div(z.ret.v, accel_scale_modifier), ~g),
           x.log \o y.log \o z.log)

\* The plotter's copy: an IOError of a word read ends the call with a bare
\* return.
get_accel_data_plot(g, s, cfg, F) ==
    LET x == read_i2c_word_plot(ACCEL_XOUT0, s[1], F, 1)
        y == read_i2c_word_plot(ACCEL_YOUT0, s[2], F, 1 + Len(x.log))
        z == read_i2c_word_plot(ACCEL_ZOUT0, s[3], F,
                                1 + Len(x.log) + Len(y.log))
        r == read_accel_range_plot(TRUE, cfg, F,
                                   1 + Len(x.log) + Len(y.log) + Len(z.log))
        accel_scale_modifier == AccelModifier(r.ret.v)
    IN IF x.raised THEN Out(FALSE, RetNone, x.log)
       ELSE IF y.raised THEN Out(FALSE, RetNone, x.log \o y.log)
       ELSE IF z.raised THEN Out(FALSE, RetNone, x.log \o y.log \o z.log)
       ELSE Out(FALSE,
                RetDict(Div(x.ret.v, accel_scale_modifier),
                        Div(y.ret.v, accel_scale_modifier),
                        Div(z.ret.v, accel_scale_modifier), ~g),
                x.log \o y.log \o z.log \o r.log)

get_accel_data(c, g, s, cfg, F) ==
    CASE c = "recorder" -> get_accel_data_recorder(g, s, cfg, F)
      [] c = "motion_led" -> get_accel_data_motion_led(g, s, cfg, F)
      [] c = "plot" -> get_accel_data_plot(g, s, cfg, F)

Zero == Rat(0, 1)

get_gyro_data_recorder(s, cfg, F) ==
    LET x == read_i2c_word_recorder(GYRO_XOUT0, s[1], F, 1)
        y == read_i2c_word_recorder(GYRO_YOUT0, s[2], F, 1 + Len(x.log))
        z == read_i2c_word_recorder(GYRO_ZOUT0, s[3], F,
                                    1 + Len(x.log) + Len(y.log))
        r == read_gyro_range_recorder(TRUE, cfg, F,
                                      1 + Len(x.log) + Len(y.log) + Len(z.log))
        gyro_scale_modifier == GyroModifier(r.ret.v)
    IN IF gyro_scale_modifier.n = 0
       THEN Out(FALSE, RetDict(Zero, Zero, Zero, FALSE),
                x.log \o y.log \o z.log \o r.log)
       ELSE Out(FALSE,
                RetDict(Div(x.ret.v, gyro_scale_modifier),
                        Div(y.ret.v, gyro_scale_modifier),
                        Div(z.ret.v, gyro_scale_modifier), FALSE),
                x.log \o y.log \o z.log \o r.log)

get_gyro_data_motion_led(s, cfg, F) ==
    LET x == read_i2c_word_motion_led(GYRO_XOUT0, s[1], F, 1)
        y == read_i2c_word_motion_led(GYRO_YOUT0, s[2], F, 1 + Len(x.log))
        z == read_i2c_word_motion_led(GYRO_ZOUT0, s[3], F,
                                      1 + Len(x.log) + Len(y.log))
        gyro_scale_modifier == GYRO_SCALE_MODIFIER_250DEG
    IN Out(FALSE,
           RetDict(Div(x.ret.v, gyro_scale_modifier),
                   Div(y.ret.v, gyro_scale_modifier),
                   Div(z.ret.v, gyro_scale_modifier), FALSE),
           x.log \o y.log \o z.log)

\* The plotter's copy: the three word reads are inside a try that answers an
\* IOError with zeros; after scaling x and y it reads the z register again,
\* outside any try, and returns that word as it is.
get_gyro_data_plot(s, cfg, F) ==
    LET x == read_i2c_word_plot(GYRO_XOUT0, s[1], F, 1)
        y == read_i2c_word_plot(GYRO_YOUT0, s[2], F, 1 + Len(x.log))
        z == read_i2c_word_plot(GYRO_ZOUT0, s[3], F,
                                1 + Len(x.log) + Len(y.log))
        r == read_gyro_range_plot(TRUE, cfg, F,
                                  1 + Len(x.log) + Len(y.log) + Len(z.log))
        gyro_scale_modifier == GyroModifier(r.ret.v)
        z2 == read_i2c_word_plot(GYRO_ZOUT0, s[4], F,
                                 1 + Len(x.log) + Len(y.log) + Len(z.log)
                                   + Len(r.log))
        all == x.log \o y.log \o z.log \o r.log \o z2.log
    IN IF x.raised THEN Out(FALSE, RetDict(Zero, Zero, Zero, FALSE), x.log)
       ELSE IF y.raised
       THEN Out(FALSE, RetDict(Zero, Zero, Zero, FALSE), x.log \o y.log)
       ELSE IF z.raised
       THEN Out(FALSE, RetDict(Zero, Zero, Zero, FALSE),
                x.log \o y.log \o z.log)
       ELSE IF z2.raised THEN Out(TRUE, RetNone, all)
       ELSE Out(FALSE,
                RetDict(Div(x.ret.v, gyro_scale_modifier),
                        Div(y.ret.v, gyro_scale_modifier),
                        Rat(z2.ret.v, 1), FALSE),
                all)

get_gyro_data(c, s, cfg, F) ==
    CASE c = "recorder" -> get_gyro_data_recorder(s, cfg, F)
      [] c = "motion_led" -> get_gyro_data_motion_led(s, cfg, F)
      [] c = "plot" -> get_gyro_data_plot(s, cfg, F)

\* (raw_temp / 340.0) + 36.53, as the rational (100 raw + 1242020) / 34000.
Temp(raw_temp) == RetFloat(Rat((100 * raw_temp) + 1242020, 34000))

get_temp_recorder(s, F) ==
    LET t == read_i2c_word_recorder(TEMP_OUT0, s[1], F, 1)
    IN Out(FALSE, Temp(t.ret.v), t.log)

get_temp_plot(s, F) ==
    LET t == read_i2c_word_plot(TEMP_OUT0, s[1], F, 1)
    IN IF t.raised THEN Out(FALSE, RetFloat(Zero), t.log)
       ELSE Out(FALSE, Temp(t.ret.v), t.log)

\* ------------------------------------------------------------ construction

\* d holds the device registers before the call; the constructor's first bus
\* transaction is the write of 0x00 to PWR_MGMT_1.
init_recorder(d, F) ==
    IF 1 \in F
    THEN OutW(TRUE, RetNone, <<Txn("w", PWR_MGMT_1, FALSE)>>, d)
    ELSE OutW(FALSE, RetNone, <<Txn("w", PWR_MGMT_1, TRUE)>>,
              Dev(0, d.accel, d.gyro))

\* The motion detector's copy goes on to set the default ranges; the two
\* setters catch their own IOError.
init_motion_led(d, F) ==
    LET woken == Dev(0, d.accel, d.gyro)
        a == set_accel_range_motion_led(ACCEL_RANGE_2G, woken, F, 2)
        b == set_gyro_range_motion_led(GYRO_RANGE_250DEG, a.dev, F, 3)
    IN IF 1 \in F
       THEN OutW(TRUE, RetNone, <<Txn("w", PWR_MGMT_1, FALSE)>>, d)
       ELSE OutW(FALSE, RetNone,
                 <<Txn("w", PWR_MGMT_1, TRUE)>> \o a.log \o b.log, b.dev)

\* The plotter's copy catches the IOError of the write and returns normally.
init_plot(d, F) ==
    IF 1 \in F
    THEN OutW(FALSE, RetNone, <<Txn("w", PWR_MGMT_1, FALSE)>>, d)
    ELSE OutW(FALSE, RetNone, <<Txn("w", PWR_MGMT_1, TRUE)>>,
              Dev(0, d.accel, d.gyro))

init(c, d, F) ==
    CASE c = "recorder" -> init_recorder(d, F)
      [] c = "motion_led" -> init_motion_led(d, F)
      [] c = "plot" -> init_plot(d, F)

\* ------------------------------------------------------------ the driver
\* Any program over one copy of the class: it constructs the driver and then
\* calls its methods in any order, while the bus may fail at any transaction.

\* The inputs of a call of n bus transactions: no failure, one failed
\* transaction, or a dead bus.
FailSets(n) == {{}} \cup {{k} : k \in 1 .. n} \cup {1 .. n}

\* The four range codes and a byte that is none of them.
ConfigBytes == {0, 8, 16, 24, 1}

\* <<x, y, z, z2>> as <<high, low>>:
\*   16384, 0, -16384          131, -1, 1310 (then 262)
\*   8192, -32768, 32767
SensorSamples ==
    { << <<64, 0>>, <<0, 0>>, <<192, 0>>, <<192, 0>> >>,
      << <<0, 131>>, <<255, 255>>, <<5, 30>>, <<1, 6>> >>,
      << <<32, 0>>, <<128, 0>>, <<127, 255>>, <<127, 255>> >> }

AxisRegisters == {ACCEL_XOUT0, GYRO_ZOUT0}

NoSample == << <<0, 0>>, <<0, 0>>, <<0, 0>>, <<0, 0>> >>

\* No program of the repository is running.
NoProgram ==
    /\ pc = "idle"
    /\ led = "unset"
    /\ camera = "None"
    /\ last_state_moving = FALSE
    /\ accel_data = RetNone
    /\ gyro_data = RetNone
    /\ cycles = 0
    /\ classified = <<>>
    /\ reports = <<>>
    /\ captured = FALSE
    /\ cleanup = <<>>
    /\ file = <<>>
    /\ record_count = 0
    /\ time_data = <<>>
    /\ ax_data = <<>>
    /\ ay_data = <<>>
    /\ az_data = <<>>

\* The transactions of F the call came to.
Failed(F, l) == {k \in F : k <= Len(l)}

Init ==
    /\ driver \in Copies
    /\ mpu = "None"
    /\ init_failed = FALSE
    /\ pwr_mgmt_1 = 64
    /\ accel_config \in ConfigBytes
    /\ gyro_config \in ConfigBytes
    /\ op = "none"
    /\ arg = 0
    /\ flag = FALSE
    /\ sensor = NoSample
    /\ fail = {}
    /\ log = <<>>
    /\ raised = FALSE
    /\ ret = RetNone
    /\ NoProgram

\* mpu = mpu6050(0x68): when __init__ raises, the program holds no driver and
\* leaves through its handlers.
Construct ==
    /\ op = "none"
    /\ \E F \in FailSets(3) :
        \E o \in {init(driver, Dev(pwr_mgmt_1, accel_config, gyro_config), F)} :
           /\ mpu' = IF o.raised THEN "None" ELSE "object"
           /\ init_failed' = (1 \in F)
           /\ pwr_mgmt_1' = o.dev.pwr
           /\ accel_config' = o.dev.accel
           /\ gyro_config' = o.dev.gyro
           /\ op' = "__init__"
           /\ fail' = Failed(F, o.log)
           /\ log' = o.log
           /\ raised' = o.raised
           /\ ret' = o.ret
    /\ arg' = 0
    /\ flag' = FALSE
    /\ sensor' = NoSample
    /\ UNCHANGED <<driver, progVars>>

ReadI2cWord ==
    /\ mpu = "object"
    /\ \E register \in AxisRegisters, s \in SensorSamples, F \in FailSets(2) :
        \E o \in {read_i2c_word(driver, register, s[1], F, 1)} :
           /\ op' = "read_i2c_word"
           /\ arg' = register
           /\ sensor' = <<s[1], s[1], s[1], s[1]>>
           /\ fail' = Failed(F, o.log)
           /\ log' = o.log
           /\ raised' = o.raised
           /\ ret' = o.ret
    /\ flag' = FALSE
    /\ UNCHANGED <<driver, mpu, init_failed, pwr_mgmt_1, accel_config,
                   gyro_config, progVars>>

SetAccelRange ==
    /\ mpu = "object"
    /\ \E accel_range \in ConfigBytes, F \in FailSets(3) :
        \E o \in {set_accel_range(driver, accel_range,
                                 Dev(pwr_mgmt_1, accel_config, gyro_config), F, 1)} :
           /\ op' = "set_accel_range"
           /\ arg' = accel_range
           /\ pwr_mgmt_1' = o.dev.pwr
           /\ accel_config' = o.dev.accel
           /\ gyro_config' = o.dev.gyro
           /\ fail' = Failed(F, o.log)
           /\ log' = o.log
           /\ raised' = o.raised
           /\ ret' = o.ret
    /\ flag' = FALSE
    /\ sensor' = NoSample
    /\ UNCHANGED <<driver, mpu, init_failed, progVars>>

SetGyroRange ==
    /\ mpu = "object"
    /\ \E gyro_range \in ConfigBytes, F \in FailSets(3) :
        \E o \in {set_gyro_range(driver, gyro_range,
                                Dev(pwr_mgmt_1, accel_config, gyro_config), F, 1)} :
           /\ op' = "set_gyro_range"
           /\ arg' = gyro_range
           /\ pwr_mgmt_1' = o.dev.pwr
           /\ accel_config' = o.dev.accel
           /\ gyro_config' = o.dev.gyro
           /\ fail' = Failed(F, o.log)
           /\ log' = o.log
           /\ raised' = o.raised
           /\ ret' = o.ret
    /\ flag' = FALSE
    /\ sensor' = NoSample
    /\ UNCHANGED <<driver, mpu, init_failed, progVars>>

ReadAccelRange ==
    /\ mpu = "object"
    /\ \E raw \in BOOLEAN, F \in FailSets(1) :
        \E o \in {read_accel_range(driver, raw, accel_config, F, 1)} :
           /\ op' = "read_accel_range"
           /\ flag' = raw
           /\ fail' = Failed(F, o.log)
           /\ log' = o.log
           /\ raised' = o.raised
           /\ ret' = o.ret
    /\ arg' = 0
    /\ sensor' = NoSample
    /\ UNCHANGED <<driver, mpu, init_failed, pwr_mgmt_1, accel_config,
                   gyro_config, progVars>>

ReadGyroRange ==
    /\ mpu = "object"
    /\ \E raw \in BOOLEAN, F \in FailSets(1) :
        \E o \in {read_gyro_range(driver, raw, gyro_config, F, 1)} :
           /\ op' = "read_gyro_range"
           /\ flag' = raw
           /\ fail' = Failed(F, o.log)
           /\ log' = o.log
           /\ raised' = o.raised
           /\ ret' = o.ret
    /\ arg' = 0
    /\ sensor' = NoSample
    /\ UNCHANGED <<driver, mpu, init_failed, pwr_mgmt_1, accel_config,
                   gyro_config, progVars>>

GetAccelData ==
    /\ mpu = "object"
    /\ \E g \in BOOLEAN, s \in SensorSamples, F \in FailSets(7) :
        \E o \in {get_accel_data(driver, g, s, accel_config, F)} :
           /\ op' = "get_accel_data"
           /\ flag' = g
           /\ sensor' = s
           /\ fail' = Failed(F, o.log)
           /\ log' = o.log
           /\ raised' = o.raised
           /\ ret' = o.ret
    /\ arg' = 0
    /\ UNCHANGED <<driver, mpu, init_failed, pwr_mgmt_1, accel_config,
                   gyro_config, progVars>>

GetGyroData ==
    /\ mpu = "object"
    /\ \E s \in SensorSamples, F \in FailSets(9) :
        \E o \in {get_gyro_data(driver, s, gyro_config, F)} :
           /\ op' = "get_gyro_data"
           /\ sensor' = s
           /\ fail' = Failed(F, o.log)
           /\ log' = o.log
           /\ raised' = o.raised
           /\ ret' = o.ret
    /\ arg' = 0
    /\ flag' = FALSE
    /\ UNCHANGED <<driver, mpu, init_failed, pwr_mgmt_1, accel_config,
                   gyro_config, progVars>>

\* The motion detector's copy has no get_temp.
GetTemp ==
    /\ mpu = "object"
    /\ driver \in {"recorder", "plot"}
    /\ \E s \in SensorSamples, F \in FailSets(2) :
        \E o \in {IF driver = "recorder" THEN get_temp_recorder(s, F)
                 ELSE get_temp_plot(s, F)} :
           /\ op' = "get_temp"
           /\ sensor' = <<s[1], s[1], s[1], s[1]>>
           /\ fail' = Failed(F, o.log)
           /\ log' = o.log
           /\ raised' = o.raised
           /\ ret' = o.ret
    /\ arg' = 0
    /\ flag' = FALSE
    /\ UNCHANGED <<driver, mpu, init_failed, pwr_mgmt_1, accel_config,
                   gyro_config, progVars>>

Next ==
    \/ Construct
    \/ ReadI2cWord
    \/ SetAccelRange
    \/ SetGyroRange
    \/ ReadAccelRange
    \/ ReadGyroRange
    \/ GetAccelData
    \/ GetGyroData
    \/ GetTemp

Spec == Init /\ [][Next]_vars

\* ------------------------------------------------------------ driver claims

\* The signed reading of the i-th word the device presented.
Signed(i) ==
    LET value == (sensor[i][1] * 256) + sensor[i][2]
    IN IF value < 32768 THEN value ELSE value - 65536

RangeCodes == {0, 8, 16, 24}

\* The documented LSB per g and, times ten, LSB per deg/s of a range code.
AccelLsb(code) ==
    CASE code = 0 -> 16384 [] code = 8 -> 8192 [] code = 16 -> 4096
      [] code = 24 -> 2048

GyroLsb10(code) ==
    CASE code = 0 -> 1310 [] code = 8 -> 655 [] code = 16 -> 328
      [] code = 24 -> 164

\* The float r is the reading v divided by the LSB of the range code.
IsAccel(r, v, code) == r.n * AccelLsb(code) = v * r.d

IsGyro(r, v, code) == r.n * GyroLsb10(code) = 10 * v * r.d

\* C2: when a byte read of an axis word fails, read_i2c_word returns 0
\* instead of raising, in every copy, and no failed read propagates an error
\* out of get_accel_data, get_gyro_data or get_temp.
C2_FailedReadGivesZero ==
    /\ (op = "read_i2c_word" /\ fail # {}) => (~raised /\ ret = RetInt(0))
    /\ (op \in {"get_accel_data", "get_gyro_data", "get_temp"}) => ~raised

\* C3: get_accel_data divides each raw axis word by the modifier of the range
\* that is in the accelerometer config register at the time of the call
\* (0x00 -> 16384, 0x08 -> 8192, 0x10 -> 4096, 0x18 -> 2048), in every copy;
\* raw word 16384 with the register at 2G is exactly 1 g.
C3_AccelScaledByRegister ==
    (op = "get_accel_data" /\ fail = {} /\ accel_config \in RangeCodes) =>
        /\ ~raised
        /\ ret.kind = "dict"
        /\ ret.ms2 = ~flag
        /\ IsAccel(ret.x, Signed(1), accel_config)
        /\ IsAccel(ret.y, Signed(2), accel_config)
        /\ IsAccel(ret.z, Signed(3), accel_config)
        /\ (accel_config = 0 /\ Signed(1) = 16384 => ret.x.n = ret.x.d)

\* The number of reads of register reg in the call.
Reads(reg) == Cardinality({i \in 1 .. Len(log) : log[i] = Txn("r", reg, TRUE)})

\* C4: get_gyro_data returns, for each of x, y and z, the raw word read for
\* that axis divided by the modifier of the active gyroscope range, and reads
\* each axis register once per call, in every copy.
C4_GyroAllAxesScaled ==
    (op = "get_gyro_data" /\ fail = {} /\ gyro_config \in RangeCodes) =>
        /\ ~raised
        /\ ret.kind = "dict"
        /\ IsGyro(ret.x, Signed(1), gyro_config)
        /\ IsGyro(ret.y, Signed(2), gyro_config)
        /\ IsGyro(ret.z, Signed(3), gyro_config)
        /\ Reads(GYRO_XOUT0) = 1
        /\ Reads(GYRO_YOUT0) = 1
        /\ Reads(GYRO_ZOUT0) = 1

\* A bus write of the call ended in IOError.
WriteFailed(l) == \E i \in 1 .. Len(l) : l[i].kind = "w" /\ ~l[i].ok

\* C5: if a bus write of set_accel_range or set_gyro_range fails, the call
\* returns without raising and the config register still holds the range
\* byte it held before the call, for every previously active range and every
\* requested range.
C5_FailedSetKeepsRange ==
    [][ /\ ( /\ op' = "set_accel_range"
             /\ WriteFailed(log')
             /\ accel_config \in RangeCodes
             /\ arg' \in RangeCodes ) =>
                (~raised' /\ accel_config' = accel_config)
        /\ ( /\ op' = "set_gyro_range"
             /\ WriteFailed(log')
             /\ gyro_config \in RangeCodes
             /\ arg' \in RangeCodes ) =>
                (~raised' /\ gyro_config' = gyro_config) ]_vars

\* C6: read_accel_range and read_gyro_range read the config register: with
\* raw they return the byte unmodified, otherwise the one range whose code is
\* the byte, and -1 for every other byte.  In every copy.
C6_ReadRangeMapsRegister ==
    /\ (op = "read_accel_range" /\ fail = {}) =>
          /\ ~raised
          /\ ret.kind = "int"
          /\ Reads(ACCEL_CONFIG) = 1
          /\ flag => ret.v = accel_config
          /\ ~flag => ret.v = (CASE accel_config = 0 -> 2 [] accel_config = 8 -> 4
                                 [] accel_config = 16 -> 8 [] accel_config = 24 -> 16
                                 [] OTHER -> -1)
    /\ (op = "read_gyro_range" /\ fail = {}) =>
          /\ ~raised
          /\ ret.kind = "int"
          /\ Reads(GYRO_CONFIG) = 1
          /\ flag => ret.v = gyro_config
          /\ ~flag => ret.v = (CASE gyro_config = 0 -> 250 [] gyro_config = 8 -> 500
                                 [] gyro_config = 16 -> 1000 [] gyro_config = 24 -> 2000
                                 [] OTHER -> -1)

\* C7: when the config register holds a byte that is none of the four range
\* codes, get_accel_data and get_gyro_data do not raise and scale with the
\* default modifier, 16384 for acceleration and 131 for angular rate.
C7_UnknownRangeDefaults ==
    /\ (op = "get_accel_data" /\ fail = {} /\ accel_config \notin RangeCodes) =>
          /\ ~raised
          /\ ret.kind = "dict"
          /\ IsAccel(ret.x, Signed(1), 0)
          /\ IsAccel(ret.y, Signed(2), 0)
          /\ IsAccel(ret.z, Signed(3), 0)
    /\ (op = "get_gyro_data" /\ fail = {} /\ gyro_config \notin RangeCodes) =>
          /\ ~raised
          /\ ret.kind = "dict"
          /\ IsGyro(ret.x, Signed(1), 0)
          /\ IsGyro(ret.y, Signed(2), 0)
          /\ IsGyro(ret.z, Signed(3), 0)

\* C8: if the write of zero to the power-management register fails during
\* construction, construction fails with an error that reaches the caller and
\* the program makes no driver call afterwards.  For every entry point.
C8_InitFailureIsFatal ==
    init_failed => (op = "__init__" /\ raised /\ mpu = "None")

\* The read of config register reg ended in IOError and every other
\* transaction of the call went through.
OnlyConfigReadFailed(reg) ==
    /\ \E i \in 1 .. Len(log) : log[i] = Txn("r", reg, FALSE)
    /\ \A i \in 1 .. Len(log) : ~log[i].ok => log[i].reg = reg

\* C13: when the read of the config register fails during a conversion,
\* get_accel_data and get_gyro_data do not raise and scale the sample with
\* the modifier of the range that was active before the failure, the one the
\* register holds from the last successful write, and with no other.
C13_FailedConfigReadKeepsRange ==
    /\ ( /\ op = "get_accel_data"
         /\ OnlyConfigReadFailed(ACCEL_CONFIG)
         /\ accel_config \in RangeCodes ) =>
            /\ ~raised
            /\ ret.kind = "dict"
            /\ IsAccel(ret.x, Signed(1), accel_config)
            /\ IsAccel(ret.y, Signed(2), accel_config)
            /\ IsAccel(ret.z, Signed(3), accel_config)
    /\ ( /\ op = "get_gyro_data"
         /\ OnlyConfigReadFailed(GYRO_CONFIG)
         /\ gyro_config \in RangeCodes ) =>
            /\ ~raised
            /\ ret.kind = "dict"
            /\ IsGyro(ret.x, Signed(1), gyro_config)
            /\ IsGyro(ret.y, Signed(2), gyro_config)

ReadOps ==
    {"read_i2c_word", "read_accel_range", "read_gyro_range", "get_accel_data",
     "get_gyro_data", "get_temp"}

WriteOps == {"__init__", "set_accel_range", "set_gyro_range"}

\* C16: read_i2c_word, read_accel_range, read_gyro_range, get_accel_data,
\* get_gyro_data and get_temp perform no bus write and leave the two config
\* registers and the power-management register as they were; the registers
\* change only in construction and in set_accel_range / set_gyro_range.
C16_ReadsWriteNothing ==
    [][ /\ op' \in ReadOps =>
              /\ \A i \in 1 .. Len(log') : log'[i].kind = "r"
              /\ accel_config' = accel_config
              /\ gyro_config' = gyro_config
              /\ pwr_mgmt_1' = pwr_mgmt_1
        /\ ( \/ accel_config' # accel_config
             \/ gyro_config' # gyro_config
             \/ pwr_mgmt_1' # pwr_mgmt_1 ) => op' \in WriteOps ]_vars

\* The plotter's get_gyro_data, nine byte reads and one config read, on a
\* device set to 1000 deg/s and 4G after its wake-up.
C16_Witness ==
    /\ op = "get_gyro_data"
    /\ driver = "plot"
    /\ Len(log) = 9
    /\ pwr_mgmt_1 = 0
    /\ gyro_config = GYRO_RANGE_1000DEG
    /\ accel_config = ACCEL_RANGE_4G

\* ------------------------------------------------------------ motion_led.py
\* main(): construct the driver, set up the LED and the camera, then poll.
\* One polling cycle, from the sensor reads to the sleep, is one action.

MaxCycles == 3

\* x*x + y*y + z*z of the numerators of a sample; the three denominators of
\* a sample of this copy are the same modifier.
SumSq(a) == (a.x.n * a.x.n) + (a.y.n * a.y.n) + (a.z.n * a.z.n)

\* abs(sqrt(ax**2 + ay**2 + az**2) - GRAVITIY_MS2) > ACCEL_DELTA_THRESHOLD
\* for a sample n / 16384 * 9.80665 and the threshold 3.419, in integers:
\* the magnitude is above 9.80665 + 3.419 exactly when the sum of squares is
\* above 16384^2 * (13.22565 / 9.80665)^2 = 488239124.7..., and below
\* 9.80665 - 3.419 exactly when the sum of squares is below
\* 16384^2 * (6.38765 / 9.80665)^2 = 113888730.2...
AccelAboveSq == 488239124
AccelBelowSq == 113888731

AccelDeltaExceeds(a) == SumSq(a) > AccelAboveSq \/ SumSq(a) < AccelBelowSq

\* GYRO_MAG_THRESHOLD, in deg/s.
GYRO_MAG_THRESHOLD == 10

GyroExceedsOrEquals(g) ==
    SumSq(g) >= GYRO_MAG_THRESHOLD * GYRO_MAG_THRESHOLD * g.x.d * g.x.d

\* sqrt(gx**2 + gy**2 + gz**2) > GYRO_MAG_THRESHOLD for a sample n / d.
GyroMagnitudeExceeds(g) ==
    SumSq(g) > GYRO_MAG_THRESHOLD * GYRO_MAG_THRESHOLD * g.x.d * g.x.d

\* is_moving_now
IsMovingNow(a, g) == AccelDeltaExceeds(a) \/ GyroMagnitudeExceeds(g)

\* No check of the sample at all.
NoZeroCheck(a) == FALSE

\* accel_data['x'] == 0 and accel_data['y'] == 0 and accel_data['z'] == 0
AllZero(a) == a.x.n = 0 /\ a.y.n = 0 /\ a.z.n = 0

ReportWhileMoving(now, last) ==
    IF now THEN <<"Moving">>
    ELSE IF last THEN <<"Stationary">> ELSE <<>>

\* What the state transition logic prints: "Status: Moving" when the sample
\* moves and the stored state does not, "Status: Stationary - Capturing
\* Alert!" when the stored state moves and the sample does not.
Report(now, last) ==
    IF now
    THEN (IF ~last THEN <<"Moving">> ELSE <<>>)
    ELSE (IF last THEN <<"Stationary">> ELSE <<>>)

\* The LED is never switched off.
LedStaysOn(now) == "HIGH"

\* led_on() in the moving branch, led_off() in the other.
LedLevel(now) == IF now THEN "HIGH" ELSE "LOW"

\* last_state_moving = True in the moving branch, False in the other.
NextStateMoving(now) == IF now THEN TRUE ELSE FALSE

\* capture_alert_image(): an image is written when the camera is there and
\* capture_file does not raise; the function raises nothing.
Captured(now, last, cam, capture_ok) ==
    ~now /\ last /\ cam = "started" /\ capture_ok

\* Raw samples <<x, y, z, z2>>: at rest (0, 0, 16384); all zero; just below
\* and just above the upper threshold (22096 and 22097 on z); below the lower
\* threshold (-8192, 0, 0).
MotionAccel ==
    { << <<0, 0>>, <<0, 0>>, <<64, 0>>, <<64, 0>> >>,
      << <<0, 0>>, <<0, 0>>, <<0, 0>>, <<0, 0>> >>,
      << <<0, 0>>, <<0, 0>>, <<86, 80>>, <<86, 80>> >>,
      << <<0, 0>>, <<0, 0>>, <<86, 81>>, <<86, 81>> >>,
      << <<224, 0>>, <<0, 0>>, <<0, 0>>, <<0, 0>> >> }

\* No rotation; exactly 10 deg/s (786 on x, -1048 on y); just above (1311
\* on x).
MotionGyro ==
    { << <<0, 0>>, <<0, 0>>, <<0, 0>>, <<0, 0>> >>,
      << <<3, 18>>, <<251, 232>>, <<0, 0>>, <<0, 0>> >>,
      << <<5, 31>>, <<0, 0>>, <<0, 0>>, <<0, 0>> >> }

\* The bus during the six byte reads of a sample: sound, the first word
\* fails, or dead.
MotionFail == {{}, {1}, 1 .. 6}

InitMotion ==
    /\ driver = "motion_led"
    /\ mpu = "None"
    /\ init_failed = FALSE
    /\ pwr_mgmt_1 = 64
    /\ accel_config = ACCEL_RANGE_2G
    /\ gyro_config = GYRO_RANGE_250DEG
    /\ op = "none"
    /\ arg = 0
    /\ flag = FALSE
    /\ sensor = NoSample
    /\ fail = {}
    /\ log = <<>>
    /\ raised = FALSE
    /\ ret = RetNone
    /\ pc = "mpu6050"
    /\ led = "unset"
    /\ camera = "None"
    /\ last_state_moving = FALSE
    /\ accel_data = RetNone
    /\ gyro_data = RetNone
    /\ cycles = 0
    /\ classified = <<>>
    /\ reports = <<>>
    /\ captured = FALSE
    /\ cleanup = <<>>
    /\ file = <<>>
    /\ record_count = 0
    /\ time_data = <<>>
    /\ ax_data = <<>>
    /\ ay_data = <<>>
    /\ az_data = <<>>

\* mpu = mpu6050(0x68); the IOError of a failed wake-up write is caught by
\* main's except Exception, which leads to the finally block.
MotionConstruct ==
    /\ pc = "mpu6050"
    /\ \E F \in FailSets(3) :
        \E o \in {init_motion_led(Dev(pwr_mgmt_1, accel_config, gyro_config), F)} :
           /\ mpu' = IF o.raised THEN "None" ELSE "object"
           /\ init_failed' = (1 \in F)
           /\ pwr_mgmt_1' = o.dev.pwr
           /\ accel_config' = o.dev.accel
           /\ gyro_config' = o.dev.gyro
           /\ op' = "__init__"
           /\ fail' = Failed(F, o.log)
           /\ log' = o.log
           /\ raised' = o.raised
           /\ ret' = o.ret
           /\ pc' = IF o.raised THEN "finally" ELSE "setup_led"
    /\ UNCHANGED <<driver, arg, flag, sensor, led, camera, last_state_moving,
                   accel_data, gyro_data, cycles, classified, reports, captured,
                   cleanup, recVars, plotVars>>

\* setup_led(): the pin is an output at LOW, unless a GPIO call raises.
SetupLed ==
    /\ pc = "setup_led"
    /\ \E gpio_ok \in BOOLEAN :
        IF gpio_ok
        THEN led' = "LOW" /\ pc' = "setup_camera"
        ELSE led' = led /\ pc' = "finally"
    /\ UNCHANGED <<drvVars, camera, last_state_moving, accel_data, gyro_data,
                   cycles, classified, reports, captured, cleanup, recVars,
                   plotVars>>

\* setup_camera() catches every exception and leaves camera = None; main
\* then sets last_state_moving = False and enters the loop.
SetupCamera ==
    /\ pc = "setup_camera"
    /\ \E camera_ok \in BOOLEAN :
        camera' = IF camera_ok THEN "started" ELSE "None"
    /\ last_state_moving' = FALSE
    /\ pc' = "loop"
    /\ UNCHANGED <<drvVars, led, accel_data, gyro_data, cycles, classified,
                   reports, captured, cleanup, recVars, plotVars>>

\* A capture whose failure is not caught.
CaptureUncaught(now, last, cam, capture_ok) ==
    ~now /\ last /\ (cam = "None" \/ ~capture_ok)

\* capture_alert_image() returns when there is no camera and catches every
\* exception of the capture: nothing reaches main.
CaptureRaises(now, last, cam, capture_ok) == FALSE

\* One pass of the while loop.  When GPIO.output raises in led_on() or
\* led_off(), the exception leaves the loop for main's except Exception
\* before anything of the cycle has taken effect; so would an exception of
\* capture_alert_image(), after led_off() and the report.
PollCycle ==
    /\ pc = "loop"
    /\ cycles < MaxCycles
    /\ \E sa \in MotionAccel, sg \in MotionGyro, Fa \in MotionFail,
          Fg \in {{}, 1 .. 6}, capture_ok \in BOOLEAN, gpio_ok \in BOOLEAN :
        \E a \in {get_accel_data_motion_led(FALSE, sa, accel_config, Fa).ret},
           g \in {get_gyro_data_motion_led(sg, gyro_config, Fg).ret} :
        \E is_moving_now \in {IsMovingNow(a, g)} :
           /\ accel_data' = a
           /\ gyro_data' = g
           /\ IF AllZero(a)
              THEN /\ captured' = FALSE
                   /\ UNCHANGED <<pc, led, last_state_moving, classified,
                                  reports>>
              ELSE IF ~gpio_ok
              THEN /\ captured' = FALSE
                   /\ pc' = "finally"
                   /\ UNCHANGED <<led, last_state_moving, classified,
                                  reports>>
              ELSE IF CaptureRaises(is_moving_now, last_state_moving, camera,
                                    capture_ok)
              THEN /\ led' = LedLevel(is_moving_now)
                   /\ reports' =
                          reports \o Report(is_moving_now, last_state_moving)
                   /\ captured' = FALSE
                   /\ pc' = "finally"
                   /\ UNCHANGED <<last_state_moving, classified>>
              ELSE /\ led' = LedLevel(is_moving_now)
                   /\ reports' =
                          reports \o Report(is_moving_now, last_state_moving)
                   /\ captured' =
                          Captured(is_moving_now, last_state_moving, camera,
                                   capture_ok)
                   /\ last_state_moving' = NextStateMoving(is_moving_now)
                   /\ classified' = Append(classified, is_moving_now)
                   /\ pc' = pc
    /\ cycles' = cycles + 1
    /\ UNCHANGED <<drvVars, camera, cleanup, recVars, plotVars>>

\* Ctrl+C during the setup or at the sleep of a cycle.
KeyboardInterrupt ==
    /\ pc \in {"mpu6050", "setup_led", "setup_camera", "loop"}
    /\ pc' = "finally"
    /\ UNCHANGED <<drvVars, led, camera, last_state_moving, accel_data,
                   gyro_data, cycles, classified, reports, captured, cleanup,
                   recVars, plotVars>>

\* finally: cleanup_gpio(), then close_camera().  GPIO.cleanup() resets the
\* pin; when it raises, the exception leaves main before close_camera().
\* close_camera() stops and closes a camera that is there and catches every
\* exception.
Finally ==
    /\ pc = "finally"
    /\ \E gpio_ok \in BOOLEAN :
        IF gpio_ok
        THEN /\ led' = "released"
             /\ camera' = IF camera = "started" THEN "closed" ELSE camera
             /\ cleanup' = <<"cleanup_gpio", "close_camera">>
        ELSE /\ cleanup' = <<"cleanup_gpio">>
             /\ UNCHANGED <<led, camera>>
    /\ pc' = "exit"
    /\ UNCHANGED <<drvVars, last_state_moving, accel_data, gyro_data, cycles,
                   classified, reports, captured, recVars, plotVars>>

NextMotion ==
    \/ MotionConstruct
    \/ SetupLed
    \/ SetupCamera
    \/ PollCycle
    \/ KeyboardInterrupt
    \/ Finally

SpecMotion == InitMotion /\ [][NextMotion]_vars

\* main() runs on: the construction, the two setups, a polling cycle and the
\* finally block each happen when they are the step main() stands at.  The
\* interrupt is the user's and may never come.
SpecMotionLive ==
    /\ InitMotion
    /\ [][NextMotion]_vars
    /\ WF_vars(MotionConstruct)
    /\ WF_vars(SetupLed)
    /\ WF_vars(SetupCamera)
    /\ WF_vars(PollCycle)
    /\ WF_vars(Finally)

\* The report a sequence of classifications calls for, the stored state being
\* Stationary before its first sample: one at every change.
RECURSIVE Changes(_, _)
Changes(seq, before) ==
    IF seq = <<>> THEN <<>>
    ELSE (IF Head(seq) = before THEN <<>>
          ELSE IF Head(seq) THEN <<"Moving">> ELSE <<"Stationary">>)
         \o Changes(Tail(seq), Head(seq))

\* C9: the classifier starts in Stationary and has only the states
\* Stationary and Moving; after every sample that is classified, the stored
\* state is Moving exactly when accelDelta > accelThreshold or gyroMagnitude >
\* gyroThreshold for that sample, strictly, whatever the state was before.
C9_StateFollowsSample ==
    /\ [](last_state_moving \in BOOLEAN)
    /\ []((pc = "loop" /\ classified = <<>>) => ~last_state_moving)
    /\ [][ Len(classified') = Len(classified) + 1 =>
             ( last_state_moving' <=>
                 \/ SumSq(accel_data') > AccelAboveSq
                 \/ SumSq(accel_data') < AccelBelowSq
                 \/ SumSq(gyro_data') > 100 * 131 * 131 ) ]_vars

\* Moving, when the sample before it was classified as moving as well; and
\* back to Stationary on a sample with exactly 10 deg/s.
C9_Witness ==
    /\ Len(classified) = 3
    /\ classified[1] /\ classified[2] /\ ~classified[3]
    /\ ~last_state_moving
    /\ gyro_data.x.n = 786
    /\ gyro_data.y.n = -1048
    /\ accel_data.z.n = 22096

\* The sequence is Stationary up to some sample and Moving from it on, or
\* the other way round after a first Moving sample.
CrossesOnce(seq) ==
    \E k \in 1 .. Len(seq) : \A i \in 1 .. Len(seq) : seq[i] <=> (i >= k)

\* C10: over any sequence of samples, a transition action (the Moving report,
\* or the Stationary report with its capture) happens exactly when the
\* classification of a sample differs from the stored state, once per change;
\* a sample classified as the stored state produces none; a sequence that
\* crosses the threshold once and does not cross back produces exactly one.
C10_OneReportPerChange ==
    /\ [](reports = Changes(classified, FALSE))
    /\ [](CrossesOnce(classified) => Len(reports) = 1)
    /\ [][ Len(classified') = Len(classified) + 1 =>
             /\ (classified'[Len(classified')] = last_state_moving)
                    => reports' = reports
             /\ (classified'[Len(classified')] # last_state_moving)
                    => Len(reports') = Len(reports) + 1 ]_vars

C10_Witness ==
    /\ classified = <<TRUE, TRUE, FALSE>>
    /\ reports = <<"Moving", "Stationary">>

\* C11: a polling cycle whose acceleration sample is exactly (0, 0, 0)
\* classifies nothing: the stored motion state, the LED level and the camera
\* are those of before the cycle, nothing is reported and no image is
\* captured, whatever the gyroscope sample is; the loop goes on.
C11_ZeroSampleSkipped ==
    [][ ( /\ pc = "loop"
          /\ cycles' = cycles + 1
          /\ accel_data'.x.n = 0
          /\ accel_data'.y.n = 0
          /\ accel_data'.z.n = 0 ) =>
            /\ last_state_moving' = last_state_moving
            /\ led' = led
            /\ camera' = camera
            /\ classified' = classified
            /\ reports' = reports
            /\ ~captured'
            /\ pc' = "loop" ]_vars

\* An all-zero acceleration sample with a rotation above the threshold,
\* while the stored state is Moving and the LED is on.
C11_Witness ==
    /\ pc = "loop"
    /\ cycles = 2
    /\ accel_data.x.n = 0 /\ accel_data.y.n = 0 /\ accel_data.z.n = 0
    /\ gyro_data.x.n = 1311
    /\ classified = <<TRUE>>
    /\ last_state_moving
    /\ led = "HIGH"

\* C14: when the camera is unavailable or the capture raises, the capture on
\* a Moving-to-Stationary transition is skipped without raising: the stored
\* state still becomes Stationary, the LED is off and the loop goes on with
\* the next cycle.
C14_CaptureFailureSkipped ==
    [][ ( /\ pc = "loop"
          /\ last_state_moving
          /\ reports' = Append(reports, "Stationary")
          /\ ~captured' ) =>
            /\ ~last_state_moving'
            /\ led' = "LOW"
            /\ pc' = "loop"
            /\ camera' = camera ]_vars

\* The camera is started and the capture of the transition wrote no image.
C14_Witness ==
    /\ pc = "loop"
    /\ cycles = 2
    /\ classified = <<TRUE, FALSE>>
    /\ reports = <<"Moving", "Stationary">>
    /\ camera = "started"
    /\ ~captured
    /\ ~last_state_moving
    /\ led = "LOW"

\* C17: from LED setup onward, and at the sleep point of every polling
\* cycle, the LED is on exactly when the stored motion state is Moving; also
\* after skipped all-zero cycles and after a cycle whose capture failed.
C17_LedFollowsState ==
    (pc \in {"setup_camera", "loop"}) =>
        /\ led \in {"HIGH", "LOW"}
        /\ led = "HIGH" <=> last_state_moving

\* Three cycles, one of them skipped, the last one a transition to
\* Stationary whose capture failed.
C17_Witness ==
    /\ pc = "loop"
    /\ cycles = 3
    /\ classified = <<TRUE, FALSE>>
    /\ camera = "started"
    /\ ~captured
    /\ accel_data.z.n # 0
    /\ led = "LOW"
    /\ ~last_state_moving

\* C12: on every way main() leaves its loop or fails before entering it
\* (interrupt, error in a cycle, failure of the sensor or LED setup), both
\* shutdown steps are eventually executed, the GPIO cleanup and the camera
\* stop/close; a failure of the first does not prevent the second.
C12_ShutdownOnEveryExit ==
    (pc = "finally") ~> (cleanup = <<"cleanup_gpio", "close_camera">>)

\* ------------------------------------------------------------ recorder
\* main() of mpu6050_recorder.py: construct the driver, set the two ranges,
\* open the output file and write the header, then one data row per polling
\* cycle until Ctrl+C.

MaxRecords == 3

\* A line of the output file, as its comma-separated fields.
Line(header, fields) == [header |-> header, fields |-> fields]

\* header
HeaderLine ==
    Line(TRUE, <<"Timestamp", "Ax(m/s^2)", "Ay(m/s^2)", "Az(m/s^2)",
                 "Gx(deg/s)", "Gy(deg/s)", "Gz(deg/s)">>)

\* data_line: the timestamp, the three accelerations and the three rates,
\* each the number that is printed with four decimals.
data_line(current_timestamp, a, g) ==
    Line(FALSE, <<Rat(current_timestamp, 1), a.x, a.y, a.z, g.x, g.y, g.z>>)

\* A write that puts the header in front of every line.
write_with_header(f, line) == f \o <<HeaderLine, line>>

\* f.write(line)
write(f, line) == Append(f, line)

\* record_count += 1
Count(n) == n + 1

\* --accel_range and --gyro_range, as the codes the two maps give.
AccelArgs == {ACCEL_RANGE_2G, ACCEL_RANGE_4G}

GyroArgs == {GYRO_RANGE_250DEG, GYRO_RANGE_500DEG}

\* What the device presents in a cycle, and the bus during the seven
\* transactions of a conversion: sound, the first word fails, or dead.
RecorderSamples ==
    { << <<64, 0>>, <<0, 0>>, <<192, 0>>, <<192, 0>> >>,
      << <<0, 131>>, <<255, 255>>, <<5, 30>>, <<5, 30>> >> }

RecorderFail == {{}, {1}, 1 .. 7}

InitRecorder ==
    /\ driver = "recorder"
    /\ mpu = "None"
    /\ init_failed = FALSE
    /\ pwr_mgmt_1 = 64
    /\ accel_config = ACCEL_RANGE_2G
    /\ gyro_config = GYRO_RANGE_250DEG
    /\ op = "none"
    /\ arg = 0
    /\ flag = FALSE
    /\ sensor = NoSample
    /\ fail = {}
    /\ log = <<>>
    /\ raised = FALSE
    /\ ret = RetNone
    /\ pc = "mpu6050"
    /\ led = "unset"
    /\ camera = "None"
    /\ last_state_moving = FALSE
    /\ accel_data = RetNone
    /\ gyro_data = RetNone
    /\ cycles = 0
    /\ classified = <<>>
    /\ reports = <<>>
    /\ captured = FALSE
    /\ cleanup = <<>>
    /\ file = <<>>
    /\ record_count = 0
    /\ time_data = <<>>
    /\ ax_data = <<>>
    /\ ay_data = <<>>
    /\ az_data = <<>>

\* mpu = mpu6050(sensor_address); the IOError of a failed wake-up write is
\* caught by the outer except IOError, which leads to the finally block.
RecorderConstruct ==
    /\ pc = "mpu6050"
    /\ \E F \in FailSets(1) :
        \E o \in {init_recorder(Dev(pwr_mgmt_1, accel_config, gyro_config), F)} :
           /\ mpu' = IF o.raised THEN "None" ELSE "object"
           /\ init_failed' = (1 \in F)
           /\ pwr_mgmt_1' = o.dev.pwr
           /\ accel_config' = o.dev.accel
           /\ gyro_config' = o.dev.gyro
           /\ op' = "__init__"
           /\ fail' = Failed(F, o.log)
           /\ log' = o.log
           /\ raised' = o.raised
           /\ ret' = o.ret
           /\ pc' = IF o.raised THEN "finally" ELSE "set_range"
    /\ UNCHANGED <<driver, arg, flag, sensor, led, camera, last_state_moving,
                   accel_data, gyro_data, cycles, classified, reports, captured,
                   cleanup, recVars, plotVars>>

\* mpu.set_accel_range(...); mpu.set_gyro_range(...)
RecorderSetRange ==
    /\ pc = "set_range"
    /\ \E accel_range \in AccelArgs, gyro_range \in GyroArgs,
          Fa \in FailSets(1), Fg \in FailSets(1) :
        \E oa \in {set_accel_range_recorder(
                       accel_range, Dev(pwr_mgmt_1, accel_config, gyro_config),
                       Fa, 1)} :
        \E og \in {set_gyro_range_recorder(gyro_range, oa.dev, Fg, 1)} :
           /\ pwr_mgmt_1' = og.dev.pwr
           /\ accel_config' = og.dev.accel
           /\ gyro_config' = og.dev.gyro
           /\ op' = "set_gyro_range"
           /\ arg' = gyro_range
           /\ fail' = Failed(Fg, og.log)
           /\ log' = og.log
           /\ raised' = og.raised
           /\ ret' = og.ret
    /\ flag' = FALSE
    /\ sensor' = NoSample
    /\ pc' = "open"
    /\ UNCHANGED <<driver, mpu, init_failed, led, camera, last_state_moving,
                   accel_data, gyro_data, cycles, classified, reports, captured,
                   cleanup, recVars, plotVars>>

\* with open(output_filename, 'w', newline='') as f: f.write(header);
\* record_count = 0.  An IOError of open() is caught by the outer except
\* IOError.
RecorderOpen ==
    /\ pc = "open"
    /\ \E open_ok \in BOOLEAN :
        IF open_ok
        THEN /\ file' = write(<<>>, HeaderLine)
             /\ record_count' = 0
             /\ pc' = "loop"
        ELSE /\ pc' = "finally"
             /\ UNCHANGED <<file, record_count>>
    /\ UNCHANGED <<drvVars, led, camera, last_state_moving, accel_data,
                   gyro_data, cycles, classified, reports, captured, cleanup,
                   plotVars>>

\* One pass of the recording loop.  The two conversions raise nothing; an
\* IOError of f.write is answered with a message and the next cycle.
RecorderCycle ==
    /\ pc = "loop"
    /\ cycles < MaxRecords
    /\ \E s \in RecorderSamples, Fa \in RecorderFail, Fg \in {{}, 1 .. 7},
          write_ok \in BOOLEAN :
        \E a \in {get_accel_data_recorder(FALSE, s, accel_config, Fa)},
           g \in {get_gyro_data_recorder(s, gyro_config, Fg)} :
           /\ accel_data' = a.ret
           /\ gyro_data' = g.ret
           /\ op' = "get_gyro_data"
           /\ sensor' = s
           /\ fail' = Failed(Fa, a.log) \cup Failed(Fg, g.log)
           /\ log' = g.log
           /\ raised' = g.raised
           /\ ret' = g.ret
           /\ IF write_ok
              THEN /\ file' = write(file, data_line(cycles, a.ret, g.ret))
                   /\ record_count' = Count(record_count)
                   /\ reports' = reports
              ELSE /\ reports' = Append(reports, "I/O Error during recording")
                   /\ UNCHANGED <<file, record_count>>
    /\ arg' = 0
    /\ flag' = FALSE
    /\ cycles' = cycles + 1
    /\ UNCHANGED <<driver, mpu, init_failed, pwr_mgmt_1, accel_config,
                   gyro_config, pc, led, camera, last_state_moving, classified,
                   captured, cleanup, plotVars>>

\* Ctrl+C: in the loop it is caught and breaks the loop; before the loop it
\* passes the outer handlers.  Either way the finally block is next.
RecorderInterrupt ==
    /\ pc \in {"mpu6050", "set_range", "open", "loop"}
    /\ reports' = IF pc = "loop" THEN Append(reports, "Stopping recording...")
                  ELSE reports
    /\ pc' = "finally"
    /\ UNCHANGED <<drvVars, led, camera, last_state_moving, accel_data,
                   gyro_data, cycles, classified, captured, cleanup, recVars,
                   plotVars>>

\* finally: the summary when start_time and record_count exist, which is
\* when the header has been written.
RecorderFinally ==
    /\ pc = "finally"
    /\ reports' = Append(reports, IF file # <<>> THEN "Recording finished."
                                  ELSE "Recorder did not start properly")
    /\ pc' = "exit"
    /\ UNCHANGED <<drvVars, led, camera, last_state_moving, accel_data,
                   gyro_data, cycles, classified, captured, cleanup, recVars,
                   plotVars>>

NextRecorder ==
    \/ RecorderConstruct
    \/ RecorderSetRange
    \/ RecorderOpen
    \/ RecorderCycle
    \/ RecorderInterrupt
    \/ RecorderFinally

SpecRecorder == InitRecorder /\ [][NextRecorder]_vars

\* The data rows of the file.
Rows == {i \in 1 .. Len(file) : ~file[i].header}

MAX_POINTS == 50

MaxFrames == 3

\* deque.append on a deque(maxlen=MAX_POINTS): a full deque drops its oldest
\* element.
append(d, v) == IF Len(d) >= MAX_POINTS THEN Append(Tail(d), v) ELSE Append(d, v)

\* current_time, in units of TIME_INCREMENT_S: 0 for the first point, the
\* last time point plus one increment after that.
current_time(t) == IF t = <<>> THEN 0 ELSE t[Len(t)] + 1

\* The device at rest, z up, and a second sample.
PlotSamples ==
    { << <<0, 0>>, <<0, 0>>, <<64, 0>>, <<64, 0>> >>,
      << <<32, 0>>, <<128, 0>>, <<127, 255>>, <<127, 255>> >> }

\* The bus during a call: sound, the first byte read fails, the read of the
\* config register fails.
PlotFail == {{}, {1}, {7}}

\* The points the deques hold when the animation has run for some frames:
\* none, one less than the capacity, the capacity.
Prefill == {0, MAX_POINTS - 1, MAX_POINTS}

\* The deques after n frames that read the device at rest at 2G without a
\* bus error.
Filled(n, v) == [i \in 1 .. n |-> v]

AtRest ==
    get_accel_data_plot(FALSE, << <<0, 0>>, <<0, 0>>, <<64, 0>>, <<64, 0>> >>,
                        ACCEL_RANGE_2G, {}).ret

\* The module after its initialisation block, with the animation running.
InitPlot ==
    /\ driver = "plot"
    /\ mpu = "object"
    /\ init_failed = FALSE
    /\ pwr_mgmt_1 = 0
    /\ accel_config \in {ACCEL_RANGE_2G, ACCEL_RANGE_4G}
    /\ gyro_config = GYRO_RANGE_250DEG
    /\ op = "none"
    /\ arg = 0
    /\ flag = FALSE
    /\ sensor = NoSample
    /\ fail = {}
    /\ log = <<>>
    /\ raised = FALSE
    /\ ret = RetNone
    /\ pc = "animation"
    /\ led = "unset"
    /\ camera = "None"
    /\ last_state_moving = FALSE
    /\ accel_data = RetNone
    /\ gyro_data = RetNone
    /\ cycles = 0
    /\ classified = <<>>
    /\ reports = <<>>
    /\ captured = FALSE
    /\ cleanup = <<>>
    /\ file = <<>>
    /\ record_count = 0
    /\ \E n \in Prefill :
          /\ time_data = [i \in 1 .. n |-> i - 1]
          /\ ax_data = Filled(n, AtRest.x)
          /\ ay_data = Filled(n, AtRest.y)
          /\ az_data = Filled(n, AtRest.z)

\* update_plot(frame).  The time point is appended before the sample is
\* looked at; get_accel_data returns None when a word read failed, and the
\* TypeError of accel_data['x'] is caught by the except Exception at the end,
\* which returns the lines as they are.  cycles counts the frames from the
\* initial state on.
UpdatePlot ==
    /\ pc = "animation"
    /\ cycles < MaxFrames
    /\ \E s \in PlotSamples, F \in PlotFail :
        \E o \in {get_accel_data_plot(FALSE, s, accel_config, F)} :
           /\ accel_data' = o.ret
           /\ op' = "get_accel_data"
           /\ sensor' = s
           /\ fail' = Failed(F, o.log)
           /\ log' = o.log
           /\ raised' = o.raised
           /\ ret' = o.ret
           /\ time_data' = append(time_data, current_time(time_data))
           /\ IF o.ret.kind = "None"
              THEN /\ reports' = Append(reports, "Error during plot update")
                   /\ UNCHANGED <<ax_data, ay_data, az_data>>
              ELSE /\ ax_data' = append(ax_data, o.ret.x)
                   /\ ay_data' = append(ay_data, o.ret.y)
                   /\ az_data' = append(az_data, o.ret.z)
                   /\ reports' = reports
    /\ arg' = 0
    /\ flag' = FALSE
    /\ cycles' = cycles + 1
    /\ UNCHANGED <<driver, mpu, init_failed, pwr_mgmt_1, accel_config,
                   gyro_config, pc, led, camera, last_state_moving, gyro_data,
                   classified, captured, cleanup, recVars>>

NextPlot == UpdatePlot

SpecPlot == InitPlot /\ [][NextPlot]_vars

\* The window w after one more point v, the oldest dropped from a full one.
Rolled(w, v) == IF Len(w) = 50 THEN Append(Tail(w), v) ELSE Append(w, v)

\* C18: after every call of update_plot, calls in which the sensor read
\* fails included, the time window and the three axis windows hold the same
\* number of points, at most 50; each successful call appends exactly one
\* point to each of the four and drops the oldest once the capacity is
\* reached.
C18_WindowsAligned ==
    /\ [](/\ Len(time_data) = Len(ax_data)
          /\ Len(time_data) = Len(ay_data)
          /\ Len(time_data) = Len(az_data)
          /\ Len(time_data) <= 50)
    /\ [][ (cycles' = cycles + 1 /\ fail' = {}) =>
              /\ time_data' = Rolled(time_data, time_data'[Len(time_data')])
              /\ ax_data' = Rolled(ax_data, accel_data'.x)
              /\ ay_data' = Rolled(ay_data, accel_data'.y)
              /\ az_data' = Rolled(az_data, accel_data'.z) ]_vars

\* ------------------------------------------------------------ word decoding
\* Every pair of bytes, in every copy, read without a bus error.

InitWord ==
    /\ driver \in Copies
    /\ mpu = "object"
    /\ init_failed = FALSE
    /\ pwr_mgmt_1 = 0
    /\ accel_config = ACCEL_RANGE_2G
    /\ gyro_config = GYRO_RANGE_250DEG
    /\ op = "none"
    /\ arg = ACCEL_XOUT0
    /\ flag = FALSE
    /\ sensor \in Bytes \X Bytes
    /\ fail = {}
    /\ log = <<>>
    /\ raised = FALSE
    /\ ret = RetNone
    /\ NoProgram

WordRead ==
    /\ op = "none"
    /\ \E o \in {read_i2c_word(driver, arg, sensor, fail, 1)} :
          /\ op' = "read_i2c_word"
          /\ log' = o.log
          /\ raised' = o.raised
          /\ ret' = o.ret
    /\ UNCHANGED <<driver, mpu, init_failed, pwr_mgmt_1, accel_config,
                   gyro_config, arg, flag, sensor, fail, progVars>>

NextWord == WordRead

SpecWord == InitWord /\ [][NextWord]_vars

\* The unsigned word the device presented.
Word == (sensor[1] * 256) + sensor[2]

\* C1: for every pair of bytes (high, low) read without a bus error,
\* read_i2c_word returns the 16-bit two's-complement value of high*256 + low:
\* the value itself below 0x8000, the value minus 65536 from 0x8000 on, always
\* within -32768 .. 32767; 0xFFFF gives -1, 0x8000 gives -32768, 0x7FFF gives
\* 32767 and 0x0000 gives 0.  In all three copies.
C1_TwosComplement ==
    (op = "read_i2c_word" /\ fail = {}) =>
        /\ ~raised
        /\ ret.kind = "int"
        /\ ret.v \in -32768 .. 32767
        /\ (Word < 32768 => ret.v = Word)
        /\ (Word >= 32768 => ret.v = Word - 65536)
        /\ (Word = 65535 => ret.v = -1)
        /\ (Word = 32768 => ret.v = -32768)
        /\ (Word = 32767 => ret.v = 32767)
        /\ (Word = 0 => ret.v = 0)

C1_Witness ==
    /\ op = "read_i2c_word"
    /\ driver = "plot"
    /\ sensor = <<128, 0>>
    /\ ret.v = -32768

====
